---------------------------- MODULE Spec2Model ----------------------------
(***************************************************************************)
(* Model of the km Drive worker (src/worker): the paragraph chunker, the   *)
(* embedding annotator, the recursive folder walk, the change handler, the *)
(* chunk replacement in the persistence layer and the three trigger        *)
(* endpoints.                                                              *)
(*                                                                         *)
(* Text is a sequence of tokens.  A token is one character of whitespace   *)
(* (SP, NL) or a piece of non-blank text: "w" and "v" are single words,    *)
(* "W500" and "W400" stand for runs of 500 and 400 words separated by      *)
(* single spaces.                                                          *)
(***************************************************************************)
EXTENDS Integers, Sequences, FiniteSets, TLC

SP == " "
NL == "\n"
Whitespace == {SP, NL}

\* Words held by one non-blank token.
WordsOf(tok) ==
    CASE tok = "W500" -> 500
      [] tok = "W400" -> 400
      [] OTHER -> 1

SetMin(S) == CHOOSE x \in S : \A y \in S : x <= y
SetMax(S) == CHOOSE x \in S : \A y \in S : x >= y

RECURSIVE SumTo(_, _)
SumTo(f, n) == IF n = 0 THEN 0 ELSE f[n] + SumTo(f, n - 1)

\* str.split("\n\n"): cut at each non-overlapping occurrence, left to right.
RECURSIVE str_split(_)
str_split(t) ==
    LET seps == {j \in 1..(Len(t) - 1) : t[j] = NL /\ t[j + 1] = NL}
    IN  IF seps = {} THEN <<t>>
        ELSE LET j == SetMin(seps)
             IN  <<SubSeq(t, 1, j - 1)>> \o str_split(SubSeq(t, j + 2, Len(t)))

\* str.strip(): drop leading and trailing whitespace.
str_strip(t) ==
    LET solid == {j \in 1..Len(t) : t[j] \notin Whitespace}
    IN  IF solid = {} THEN <<>> ELSE SubSeq(t, SetMin(solid), SetMax(solid))

\* len(s.split()): whitespace-delimited words; adjacent non-blank tokens
\* share a word.
word_count(t) ==
    SumTo([j \in 1..Len(t) |->
              IF t[j] \in Whitespace THEN 0
              ELSE WordsOf(t[j]) - (IF j > 1 /\ t[j - 1] \notin Whitespace THEN 1 ELSE 0)],
          Len(t))

SelectNonEmpty(ps) == SelectSeq(ps, LAMBDA p : p # <<>>)

_split_paragraphs(t) ==
    LET pieces == str_split(t)
    IN  SelectNonEmpty([j \in 1..Len(pieces) |-> str_strip(pieces[j])])

\* "\n\n".join(paragraphs)
RECURSIVE join_paragraphs(_)
join_paragraphs(ps) ==
    IF ps = <<>> THEN <<>>
    ELSE IF Len(ps) = 1 THEN ps[1]
    ELSE ps[1] \o <<NL, NL>> \o join_paragraphs(Tail(ps))

None == <<>>

Chunk(file_id, chunk_index, content, tokens, embedding) ==
    [file_id |-> file_id, chunk_index |-> chunk_index, content |-> content,
     tokens |-> tokens, embedding |-> embedding]

DefaultMaxTokens == 800
DefaultOverlap == 200

\* Mutant of overlap_walk: the paragraphs walked are appended, not inserted
\* at the front.
RECURSIVE overlap_walk_reversed(_, _, _, _)
overlap_walk_reversed(current, j, acc, overlap) ==
    IF j = 0 THEN acc
    ELSE LET nxt == [paragraphs |-> acc.paragraphs \o <<current[j]>>,
                     tokens |-> acc.tokens + word_count(current[j])]
         IN  IF nxt.tokens >= overlap THEN nxt
             ELSE overlap_walk_reversed(current, j - 1, nxt, overlap)

\* Mutant of overlap_walk: the walk stops only once the accumulated count
\* has passed the overlap, not when it reaches it.
RECURSIVE overlap_walk_overshoots(_, _, _, _)
overlap_walk_overshoots(current, j, acc, overlap) ==
    IF j = 0 THEN acc
    ELSE LET nxt == [paragraphs |-> <<current[j]>> \o acc.paragraphs,
                     tokens |-> acc.tokens + word_count(current[j])]
         IN  IF nxt.tokens > overlap THEN nxt
             ELSE overlap_walk_overshoots(current, j - 1, nxt, overlap)

\* The backward walk over the closed buffer: for prev in reversed(current).
RECURSIVE overlap_walk(_, _, _, _)
overlap_walk(current, j, acc, overlap) ==
    IF j = 0 THEN acc
    ELSE LET nxt == [paragraphs |-> <<current[j]>> \o acc.paragraphs,
                     tokens |-> acc.tokens + word_count(current[j])]
         IN  IF nxt.tokens >= overlap THEN nxt
             ELSE overlap_walk(current, j - 1, nxt, overlap)

\* Mutant of overlap_seed: the backward walk also runs when overlap is 0.
overlap_seed_always_walks(current, overlap) ==
    overlap_walk(current, Len(current), [paragraphs |-> <<>>, tokens |-> 0], overlap)

\* The buffer and running count the next chunk starts from.
overlap_seed(current, overlap) ==
    IF overlap > 0
    THEN overlap_walk(current, Len(current), [paragraphs |-> <<>>, tokens |-> 0], overlap)
    ELSE [paragraphs |-> <<>>, tokens |-> 0]

\* Emit the buffer as the next chunk.  buffers and seeds are history kept
\* beside the code's variables: the paragraph list of each emitted chunk and
\* how many of its leading paragraphs were carried over as overlap.
emit(st, file_id) ==
    [st EXCEPT !.chunks = Append(st.chunks,
                                 Chunk(file_id, st.chunk_index,
                                       join_paragraphs(st.current),
                                       st.token_count, None)),
               !.buffers = Append(st.buffers, st.current),
               !.seeds = Append(st.seeds, st.carried)]

\* The body of the paragraph loop once the close test is decided: close the
\* buffer and seed the next one when closing, then append the paragraph.
append_paragraph(st, paragraph, closing, file_id, overlap) ==
    LET seed == overlap_seed(st.current, overlap)
        closed == IF closing
                  THEN [emit(st, file_id) EXCEPT
                           !.chunk_index = st.chunk_index + 1,
                           !.current = seed.paragraphs,
                           !.token_count = seed.tokens,
                           !.carried = Len(seed.paragraphs)]
                  ELSE st
    IN  [closed EXCEPT !.current = Append(closed.current, paragraph),
                       !.token_count = closed.token_count + word_count(paragraph)]

\* Mutant of chunk_step: a paragraph longer than max_tokens is cut after its
\* first word and the two pieces are buffered one after the other.
chunk_step_cuts_oversized(st, paragraph, file_id, max_tokens, overlap) ==
    LET fits(s, piece) == ~(s.token_count + word_count(piece) > max_tokens /\ s.current # <<>>)
        step(s, piece) == append_paragraph(s, piece, ~fits(s, piece), file_id, overlap)
    IN  IF word_count(paragraph) > max_tokens /\ Len(paragraph) > 1
        THEN step(step(st, SubSeq(paragraph, 1, 1)),
                  str_strip(SubSeq(paragraph, 2, Len(paragraph))))
        ELSE step(st, paragraph)

\* Mutant of chunk_step: the limit is tested against the running count
\* alone, without the paragraph about to be added.
chunk_step_tests_count_alone(st, paragraph, file_id, max_tokens, overlap) ==
    append_paragraph(st, paragraph,
                     st.token_count > max_tokens /\ st.current # <<>>,
                     file_id, overlap)

\* One iteration of the paragraph loop of chunk_text.
chunk_step(st, paragraph, file_id, max_tokens, overlap) ==
    LET tokens == word_count(paragraph)
    IN  append_paragraph(st, paragraph,
                         st.token_count + tokens > max_tokens /\ st.current # <<>>,
                         file_id, overlap)

RECURSIVE chunk_loop(_, _, _, _, _)
chunk_loop(st, paragraphs, file_id, max_tokens, overlap) ==
    IF paragraphs = <<>> THEN st
    ELSE chunk_loop(chunk_step(st, Head(paragraphs), file_id, max_tokens, overlap),
                    Tail(paragraphs), file_id, max_tokens, overlap)

\* chunk_text with the history of its buffers: the state after the final
\* chunk was emitted.
chunk_run(t, file_id, max_tokens, overlap) ==
    LET paragraphs == _split_paragraphs(t)
        start == [chunks |-> <<>>, current |-> <<>>, token_count |-> 0,
                  chunk_index |-> 0, carried |-> 0, buffers |-> <<>>, seeds |-> <<>>]
        st == chunk_loop(start, paragraphs, file_id, max_tokens, overlap)
    IN  IF paragraphs = <<>> THEN start
        ELSE IF st.current # <<>> THEN emit(st, file_id)
        ELSE st

chunk_text(t, file_id, max_tokens, overlap) ==
    chunk_run(t, file_id, max_tokens, overlap).chunks


-----------------------------------------------------------------------------
(***************************************************************************)
(* The storage provider: a tree of nodes below the configured root.        *)
(***************************************************************************)
FOLDER == "application/vnd.google-apps.folder"
DOCUMENT == "application/vnd.google-apps.document"
SPREADSHEET == "application/vnd.google-apps.spreadsheet"
PRESENTATION == "application/vnd.google-apps.presentation"
PNG == "image/png"

SUPPORTED_EXPORTS ==
    [m \in {DOCUMENT, SPREADSHEET, PRESENTATION} |->
        IF m = SPREADSHEET THEN "text/csv" ELSE "text/plain"]

RootId == "root"
GoneId == "gone"

\* Provider trees the runs are drawn from.  parent, mime_type and text are
\* what files().get, files().list and files().export answer.
TreeExample ==
    [parent |-> [n \in {"f", "d1", "d2"} |-> IF n = "d2" THEN "f" ELSE RootId],
     mime_type |-> [n \in {"f", "d1", "d2"} |-> IF n = "f" THEN FOLDER ELSE DOCUMENT],
     text |-> [n \in {"f", "d1", "d2"} |->
                 IF n = "d1" THEN <<"w", SP, "v">>
                 ELSE IF n = "d2" THEN <<"W500", NL, NL, "W400">>
                 ELSE <<>>]]

TreeDeep ==
    [parent |-> [n \in {"f", "g", "d2", "p"} |->
                   IF n = "f" THEN RootId ELSE IF n = "d2" THEN "g" ELSE "f"],
     mime_type |-> [n \in {"f", "g", "d2", "p"} |->
                   IF n \in {"f", "g"} THEN FOLDER ELSE IF n = "p" THEN PNG ELSE SPREADSHEET],
     text |-> [n \in {"f", "g", "d2", "p"} |->
                 IF n = "d2" THEN <<SP, NL, NL, NL>> ELSE <<>>]]

TreeEmpty ==
    [parent |-> [n \in {} |-> RootId],
     mime_type |-> [n \in {} |-> FOLDER],
     text |-> [n \in {} |-> <<>>]]

\* A document beside a binary asset.
TreeMixed ==
    [parent |-> [n \in {"d1", "p"} |-> RootId],
     mime_type |-> [n \in {"d1", "p"} |-> IF n = "p" THEN PNG ELSE DOCUMENT],
     text |-> [n \in {"d1", "p"} |-> IF n = "d1" THEN <<"w", SP, "v">> ELSE <<>>]]

Trees == {TreeExample, TreeDeep, TreeMixed, TreeEmpty}

NodesOf(tree) == DOMAIN tree.parent
ChildrenOf(tree, folder_id) == {n \in NodesOf(tree) : tree.parent[n] = folder_id}
Exists(tree, id) == id = RootId \/ id \in NodesOf(tree)

DriveFile(tree, id) ==
    [id |-> id,
     mime_type |-> IF id = RootId THEN FOLDER ELSE tree.mime_type[id],
     parents |-> IF id = RootId THEN <<>> ELSE <<tree.parent[id]>>]

NoFile == [id |-> "", mime_type |-> "", parents |-> <<>>]

\* The listings files().list may return for one folder: its children in any
\* order.
Listings(tree, folder_id) ==
    LET kids == ChildrenOf(tree, folder_id)
        n == Cardinality(kids)
    IN  {[j \in 1..n |-> DriveFile(tree, s[j])] :
            s \in {t \in [1..n -> kids] : \A a, b \in 1..n : a # b => t[a] # t[b]}}

\* files().get(...).execute(): the resource, an empty answer, or an HttpError.
get_file_outcomes(tree, id) ==
    IF Exists(tree, id) THEN {"ok", "error"} ELSE {"empty", "error"}

(***************************************************************************)
(* Process configuration (config.py).                                      *)
(***************************************************************************)
Secret == "s3cret"
Configs ==
    {[manual_trigger_token |-> Secret, has_embeddings |-> TRUE],
     [manual_trigger_token |-> "", has_embeddings |-> FALSE]}

(***************************************************************************)
(* The persistence layer.                                                  *)
(***************************************************************************)
AllIds == {RootId, GoneId, "f", "g", "d1", "d2", "p"}
RecordId(drive_id) == <<"rec", drive_id>>
RecordIds == {RecordId(n) : n \in AllIds}
NoRecord == <<>>

\* Mutant of delete_chunks: the filter matches no row.
delete_chunks_none(table, file_id) == table

\* Mutant of delete_chunks: only the first matching row is removed.
delete_chunks_first_row(table, file_id) ==
    [table EXCEPT ![file_id] = IF @ = <<>> THEN @ ELSE Tail(@)]

\* DELETE /chunks?file_id=eq.<file_id>
delete_chunks(table, file_id) == [table EXCEPT ![file_id] = <<>>]
\* POST /chunks with the payload rows
insert_chunks(table, file_id, payload) == [table EXCEPT ![file_id] = @ \o payload]

\* The embedding provider's answer for one text.
EmbeddingOf(content) == <<"vec">> \o content
UsageOf(content) == 2 * word_count(content)

-----------------------------------------------------------------------------
(***************************************************************************)
(* State.                                                                  *)
(*   env          the provider tree and the process configuration          *)
(*   workers      one record per worker instance: the request it serves    *)
(*                and where its handler stands                             *)
(*   files        metadata store: the path last upserted per drive id      *)
(*   chunks_table chunk rows per record id, in insertion order             *)
(*   cursor       the stored start page token                              *)
(*   trace        per worker, the external calls of its current request    *)
(*   before       per worker, chunks_table when its current content        *)
(*                processing pass began                                    *)
(*   chunker      the inputs and the result of a direct chunk_text call    *)
(***************************************************************************)
VARIABLES env, workers, files, chunks_table, cursor, trace, before, chunker

vars == <<env, workers, files, chunks_table, cursor, trace, before, chunker>>

NoRequest == [kind |-> "none", authorization |-> None, drive_id |-> "",
              changes |-> <<>>, page_token |-> ""]

IdleWorker ==
    [kind |-> "idle", pc |-> "idle", status |-> "none", failed_at |-> "",
     request |-> NoRequest, changes |-> <<>>, processed |-> <<>>, target |-> "",
     stack |-> <<>>, file |-> NoFile, path |-> <<>>, file_id |-> NoRecord,
     chunks |-> <<>>, ei |-> 0]

Event(op, id, path, k, ok) == [op |-> op, id |-> id, path |-> path, k |-> k, ok |-> ok]

_derive_path(stack) ==
    IF stack = <<>> THEN <<>>
    ELSE [j \in 1..(2 * Len(stack) - 1) |-> IF j % 2 = 1 THEN stack[(j + 1) \div 2] ELSE "."]

\* The response is sent and the handler's locals are gone.
respond(st, status, failed_at) ==
    [IdleWorker EXCEPT !.kind = st.kind, !.request = st.request,
                       !.processed = st.processed, !.pc = "done",
                       !.status = status, !.failed_at = failed_at]

\* An exception leaves the handler: processor_context closes the clients and
\* the endpoint answers with an error.
fail(st) == respond(st, "error", st.pc)

finish(st, status) == respond(st, status, "")

\* The head of the webhook's loop over changes, and what follows the loop.
RECURSIVE next_change(_)
next_change(st) ==
    IF st.changes = <<>>
    THEN IF st.request.page_token # "" THEN [st EXCEPT !.pc = "token"]
         ELSE finish(st, "ok")
    ELSE LET change == Head(st.changes)
             file_id == IF change.fileId # "" THEN change.fileId ELSE change.id
         IN  IF file_id = "" THEN next_change([st EXCEPT !.changes = Tail(st.changes)])
             ELSE [st EXCEPT !.changes = Tail(st.changes), !.target = file_id,
                             !.pc = "get_file"]

\* Mutant of handler_returned: the cursor write sits inside the loop and
\* follows the first handled change.
handler_returned_token_in_loop(st) ==
    IF st.kind = "webhook"
    THEN IF st.request.page_token # ""
         THEN [st EXCEPT !.processed = Append(st.processed, st.target), !.pc = "token"]
         ELSE next_change([st EXCEPT !.processed = Append(st.processed, st.target)])
    ELSE finish(st, "ok")

\* handle_change or bootstrap_folder has returned to the endpoint.
handler_returned(st) ==
    IF st.kind = "webhook"
    THEN next_change([st EXCEPT !.processed = Append(st.processed, st.target)])
    ELSE finish(st, "ok")

\* bootstrap_folder(folder_id, path_stack) up to its list_children call.
enter_bootstrap_folder(st, root_id, folder_id, path_stack) ==
    LET fid == IF folder_id = "" THEN root_id ELSE folder_id
        ps == IF path_stack = <<>> THEN <<fid>> ELSE path_stack
    IN  [st EXCEPT !.stack = Append(st.stack,
                                    [folder_id |-> fid, path_stack |-> ps,
                                     items |-> <<>>, i |-> 0]),
                   !.pc = "list"]

\* Mutant of loop_next: when the items of a nested call are exhausted the
\* walk returns to the endpoint instead of to the calling loop.
loop_next_returns_to_endpoint(st) ==
    IF st.stack = <<>> THEN handler_returned(st)
    ELSE LET d == Len(st.stack)
             top == st.stack[d]
         IN  IF top.i < Len(top.items)
             THEN LET item == top.items[top.i + 1]
                  IN  [st EXCEPT !.stack[d].i = top.i + 1,
                                 !.file = item,
                                 !.path = _derive_path(Append(top.path_stack, item.id)),
                                 !.pc = "upsert"]
             ELSE handler_returned([st EXCEPT !.stack = <<>>])

\* The loop over items of the innermost bootstrap_folder call: take the next
\* item, or return to the caller when the items are exhausted.
RECURSIVE loop_next(_)
loop_next(st) ==
    IF st.stack = <<>> THEN handler_returned(st)
    ELSE LET d == Len(st.stack)
             top == st.stack[d]
         IN  IF top.i < Len(top.items)
             THEN LET item == top.items[top.i + 1]
                  IN  [st EXCEPT !.stack[d].i = top.i + 1,
                                 !.file = item,
                                 !.path = _derive_path(Append(top.path_stack, item.id)),
                                 !.pc = "upsert"]
             ELSE loop_next([st EXCEPT !.stack = SubSeq(st.stack, 1, d - 1)])

\* Mutant of handle_change_resolved: the folder test is missing and a changed
\* folder is upserted like a leaf.
handle_change_resolved_upserts_folder(st, root_id, drive_file) ==
    [st EXCEPT !.file = drive_file,
               !.path = IF drive_file.parents # <<>>
                        THEN _derive_path(<<drive_file.parents[1], drive_file.id>>)
                        ELSE <<drive_file.id>>,
               !.pc = "upsert"]

\* handle_change after get_file answered with a file.
handle_change_resolved(st, root_id, drive_file) ==
    IF drive_file.mime_type = FOLDER
    THEN enter_bootstrap_folder(st, root_id, st.target, <<>>)
    ELSE [st EXCEPT !.file = drive_file,
                    !.path = IF drive_file.parents # <<>>
                             THEN _derive_path(<<drive_file.parents[1], drive_file.id>>)
                             ELSE <<drive_file.id>>,
                    !.pc = "upsert"]

\* Mutant of process_file_content: the whitelist test is missing and every
\* leaf is exported.
process_file_content_no_whitelist(st) == [st EXCEPT !.pc = "export"]

\* _process_file_content up to its export call.
process_file_content(st) ==
    IF st.file.mime_type \notin DOMAIN SUPPORTED_EXPORTS THEN loop_next(st)
    ELSE [st EXCEPT !.pc = "export"]

\* Mutant of after_upsert: a folder is handed to content processing like a
\* leaf and its children are never walked.
after_upsert_no_recursion(st, root_id, file_id) ==
    process_file_content([st EXCEPT !.file_id = file_id])

\* After upsert_file_metadata returned the record id.
after_upsert(st, root_id, file_id) ==
    LET st1 == [st EXCEPT !.file_id = file_id]
    IN  IF st.stack # <<>> /\ st.file.mime_type = FOLDER
        THEN enter_bootstrap_folder(st1, root_id, st.file.id,
                                    Append(st.stack[Len(st.stack)].path_stack, st.file.id))
        ELSE process_file_content(st1)

\* After export_file returned the text: chunk_text, then embed_chunks up to
\* its first request.
after_export(st, has_embeddings, text_content) ==
    LET chunks == chunk_text(text_content, st.file_id, DefaultMaxTokens, DefaultOverlap)
    IN  IF has_embeddings /\ chunks # <<>>
        THEN [st EXCEPT !.chunks = chunks, !.ei = 1, !.pc = "embed"]
        ELSE [st EXCEPT !.chunks = chunks, !.ei = 0, !.pc = "delete"]

\* Mutant of after_embed: the answer is stored on the first chunk whichever
\* chunk was sent.
after_embed_stores_on_first(st, embedding, total_tokens) ==
    LET st1 == [st EXCEPT !.chunks[1].embedding = embedding,
                          !.chunks[1].tokens = total_tokens]
    IN  IF st.ei < Len(st.chunks) THEN [st1 EXCEPT !.ei = st.ei + 1]
        ELSE [st1 EXCEPT !.pc = "delete"]

\* One embedding request answered.
after_embed(st, embedding, total_tokens) ==
    LET st1 == [st EXCEPT !.chunks[st.ei].embedding = embedding,
                          !.chunks[st.ei].tokens = total_tokens]
    IN  IF st.ei < Len(st.chunks) THEN [st1 EXCEPT !.ei = st.ei + 1]
        ELSE [st1 EXCEPT !.pc = "delete"]

\* Mutant of embed_failed: the failure is swallowed and the loop goes on with
\* the chunk left without a vector.
embed_failed_swallowed(st) == after_embed(st, None, st.chunks[st.ei].tokens)

\* One embedding request failed: raise_for_status raises out of embed_chunks.
embed_failed(st) == fail(st)

\* update_chunks after the delete succeeded.
after_delete(st) ==
    IF st.chunks = <<>> THEN loop_next(st) ELSE [st EXCEPT !.pc = "insert"]

\* The authorization check of manual_reindex and bootstrap.
authorized(manual_trigger_token, authorization) ==
    ~(manual_trigger_token # "" /\ authorization # <<"Bearer ", manual_trigger_token>>)

-----------------------------------------------------------------------------
(***************************************************************************)
(* Inputs.                                                                 *)
(***************************************************************************)
MaxBatch == 2
MaxParagraphs == 4
MaxTokensBound == 3
MaxOverlapBound == 2

AuthHeaders == {None, <<"Bearer ", Secret>>, <<"Bearer ", "wrong">>}
\* The webhook declares no Authorization parameter; its requests come with
\* the header missing or right.
WebhookAuthHeaders == {None, <<"Bearer ", Secret>>}
PageTokens == {"", "t1"}

ChangeIds(tree) == NodesOf(tree) \cup {GoneId}

\* Entries of a webhook body: {"fileId": ..}, {"id": ..} or neither.
ChangeEntries(tree) ==
    {[fileId |-> "", id |-> n] : n \in NodesOf(tree) \cap {"d2"}}
        \cup {[fileId |-> GoneId, id |-> ""], [fileId |-> "", id |-> ""]}

Batches(tree) == UNION {[1..n -> ChangeEntries(tree)] : n \in 0..MaxBatch}

ParagraphPool == {<<"w">>, <<"v">>, <<"w", NL, "v">>}
Separators == {<<NL, NL>>, <<NL, NL, NL>>, <<NL, SP, NL>>}
Pads == {<<>>, <<NL>>}

RECURSIVE JoinWith(_, _)
JoinWith(ps, sep) ==
    IF ps = <<>> THEN <<>>
    ELSE IF Len(ps) = 1 THEN ps[1]
    ELSE ps[1] \o sep \o JoinWith(Tail(ps), sep)

TextInputs ==
    {pad \o JoinWith(ps, sep) \o pad :
        ps \in UNION {[1..n -> ParagraphPool] : n \in 0..MaxParagraphs},
        sep \in Separators, pad \in Pads}

IdleChunker == [active |-> FALSE, text |-> <<>>, max_tokens |-> 0, overlap |-> 0,
                done |-> FALSE, out |-> <<>>, buffers |-> <<>>, seeds |-> <<>>]

(***************************************************************************)
(* Actions: one per endpoint entry and one per external call.              *)
(***************************************************************************)
Ready(w) == workers[w].pc = "idle"

Log(w, events) == trace' = [trace EXCEPT ![w] = @ \o events]

\* POST /drive/webhook
WebhookArrives ==
    \E w \in DOMAIN workers, changes \in Batches(env.tree),
       token \in PageTokens, auth \in WebhookAuthHeaders :
        /\ Ready(w)
        /\ workers' = [workers EXCEPT ![w] =
               next_change([IdleWorker EXCEPT
                   !.kind = "webhook",
                   !.request = [kind |-> "webhook", authorization |-> auth,
                                drive_id |-> "", changes |-> changes,
                                page_token |-> token],
                   !.changes = changes])]
        /\ trace' = [trace EXCEPT ![w] = <<>>]
        /\ UNCHANGED <<env, files, chunks_table, cursor, before, chunker>>

\* POST /reindex/{drive_id}
ReindexArrives ==
    \E w \in DOMAIN workers, drive_id \in ChangeIds(env.tree), auth \in AuthHeaders :
        /\ Ready(w)
        /\ LET st == [IdleWorker EXCEPT
                         !.kind = "reindex",
                         !.request = [kind |-> "reindex", authorization |-> auth,
                                      drive_id |-> drive_id, changes |-> <<>>,
                                      page_token |-> ""]]
           IN  workers' = [workers EXCEPT ![w] =
                   IF authorized(env.cfg.manual_trigger_token, auth)
                   THEN [st EXCEPT !.target = drive_id, !.pc = "get_file"]
                   ELSE finish(st, "unauthorized")]
        /\ trace' = [trace EXCEPT ![w] = <<>>]
        /\ UNCHANGED <<env, files, chunks_table, cursor, before, chunker>>

\* POST /bootstrap
BootstrapArrives ==
    \E w \in DOMAIN workers, auth \in AuthHeaders :
        /\ Ready(w)
        /\ LET st == [IdleWorker EXCEPT
                         !.kind = "bootstrap",
                         !.request = [kind |-> "bootstrap", authorization |-> auth,
                                      drive_id |-> "", changes |-> <<>>,
                                      page_token |-> ""]]
           IN  workers' = [workers EXCEPT ![w] =
                   IF authorized(env.cfg.manual_trigger_token, auth)
                   THEN enter_bootstrap_folder(st, RootId, "", <<>>)
                   ELSE finish(st, "unauthorized")]
        /\ trace' = [trace EXCEPT ![w] = <<>>]
        /\ UNCHANGED <<env, files, chunks_table, cursor, before, chunker>>

\* DriveClient.get_file, called first by handle_change
GetFile ==
    \E w \in DOMAIN workers :
        LET st == workers[w] IN
        /\ st.pc = "get_file"
        /\ \E outcome \in get_file_outcomes(env.tree, st.target) :
            /\ workers' = [workers EXCEPT ![w] =
                   CASE outcome = "error" -> fail(st)
                     [] outcome = "empty" -> handler_returned(st)
                     [] OTHER -> handle_change_resolved(st, RootId,
                                                        DriveFile(env.tree, st.target))]
            /\ Log(w, <<Event("get_file", st.target, <<>>, 0, outcome # "error")>>)
        /\ UNCHANGED <<env, files, chunks_table, cursor, before, chunker>>

\* DriveClient.list_children, called first by bootstrap_folder
ListChildren ==
    \E w \in DOMAIN workers :
        LET st == workers[w]
            d == Len(st.stack) IN
        /\ st.pc = "list"
        /\ \/ /\ workers' = [workers EXCEPT ![w] = fail(st)]
              /\ Log(w, <<Event("list_children", st.stack[d].folder_id, <<>>, 0, FALSE)>>)
           \/ \E items \in Listings(env.tree, st.stack[d].folder_id) :
              /\ workers' = [workers EXCEPT ![w] =
                     loop_next([st EXCEPT !.stack[d].items = items])]
              /\ Log(w, <<Event("list_children", st.stack[d].folder_id, <<>>,
                                Len(items), TRUE)>>)
        /\ UNCHANGED <<env, files, chunks_table, cursor, before, chunker>>

\* SupabaseClient.upsert_file_metadata, then the branch that follows it in
\* bootstrap_folder or handle_change
Upsert ==
    \E w \in DOMAIN workers :
        LET st == workers[w] IN
        /\ st.pc = "upsert"
        /\ \/ /\ workers' = [workers EXCEPT ![w] = fail(st)]
              /\ Log(w, <<Event("upsert", st.file.id, st.path, 0, FALSE)>>)
              /\ UNCHANGED <<files, before>>
           \/ /\ files' = [files EXCEPT ![st.file.id] = st.path]
              /\ workers' = [workers EXCEPT ![w] =
                     after_upsert(st, RootId, RecordId(st.file.id))]
              /\ before' = [before EXCEPT ![w] = chunks_table]
              /\ Log(w, <<Event("upsert", st.file.id, st.path, 0, TRUE)>>
                        \o (IF st.stack # <<>> /\ st.file.mime_type = FOLDER THEN <<>>
                            ELSE <<Event("process", st.file.id, <<>>, 0, TRUE)>>))
        /\ UNCHANGED <<env, chunks_table, cursor, chunker>>

\* DriveClient.export_file, then chunk_text
Export ==
    \E w \in DOMAIN workers, ok \in BOOLEAN :
        LET st == workers[w] IN
        /\ st.pc = "export"
        /\ workers' = [workers EXCEPT ![w] =
               IF ok THEN after_export(st, env.cfg.has_embeddings, env.tree.text[st.file.id])
               ELSE fail(st)]
        /\ Log(w, <<Event("export", st.file.id, <<>>, 0, ok)>>)
        /\ UNCHANGED <<env, files, chunks_table, cursor, before, chunker>>

\* One POST /embeddings of embed_chunks
Embed ==
    \E w \in DOMAIN workers, ok \in BOOLEAN :
        LET st == workers[w] IN
        /\ st.pc = "embed"
        /\ workers' = [workers EXCEPT ![w] =
               IF ok THEN after_embed(st, EmbeddingOf(st.chunks[st.ei].content),
                                      UsageOf(st.chunks[st.ei].content))
               ELSE embed_failed(st)]
        /\ Log(w, <<Event("embed", st.file.id, <<>>, st.chunks[st.ei].chunk_index, ok)>>)
        /\ UNCHANGED <<env, files, chunks_table, cursor, before, chunker>>

\* The DELETE of update_chunks
DeleteChunks ==
    \E w \in DOMAIN workers, ok \in BOOLEAN :
        LET st == workers[w] IN
        /\ st.pc = "delete"
        /\ workers' = [workers EXCEPT ![w] = IF ok THEN after_delete(st) ELSE fail(st)]
        /\ chunks_table' = IF ok THEN delete_chunks(chunks_table, st.file_id)
                           ELSE chunks_table
        /\ Log(w, <<Event("delete", st.file.id, <<>>, 0, ok)>>)
        /\ UNCHANGED <<env, files, cursor, before, chunker>>

\* The POST of update_chunks
InsertChunks ==
    \E w \in DOMAIN workers, ok \in BOOLEAN :
        LET st == workers[w] IN
        /\ st.pc = "insert"
        /\ workers' = [workers EXCEPT ![w] = IF ok THEN loop_next(st) ELSE fail(st)]
        /\ chunks_table' = IF ok THEN insert_chunks(chunks_table, st.file_id, st.chunks)
                           ELSE chunks_table
        /\ Log(w, <<Event("insert", st.file.id, <<>>, Len(st.chunks), ok)>>)
        /\ UNCHANGED <<env, files, cursor, before, chunker>>

\* SupabaseClient.record_drive_page_token
RecordToken ==
    \E w \in DOMAIN workers, ok \in BOOLEAN :
        LET st == workers[w] IN
        /\ st.pc = "token"
        /\ workers' = [workers EXCEPT ![w] = IF ok THEN finish(st, "ok") ELSE fail(st)]
        /\ cursor' = IF ok THEN st.request.page_token ELSE cursor
        /\ Log(w, <<Event("record_token", "", <<>>, 0, ok)>>)
        /\ UNCHANGED <<env, files, chunks_table, before, chunker>>

\* The endpoint returns its response; the worker is free for the next request.
Respond ==
    \E w \in DOMAIN workers :
        /\ workers[w].pc = "done"
        /\ workers' = [workers EXCEPT ![w] = IdleWorker]
        /\ trace' = [trace EXCEPT ![w] = <<>>]
        /\ before' = [before EXCEPT ![w] = chunks_table]
        /\ UNCHANGED <<env, files, chunks_table, cursor, chunker>>

\* A direct call chunk_text(text, file_id, max_tokens, overlap)
RunChunker ==
    /\ chunker.active /\ ~chunker.done
    /\ LET run == chunk_run(chunker.text, "own", chunker.max_tokens, chunker.overlap)
       IN  chunker' = [chunker EXCEPT
               !.done = TRUE,
               !.out = chunk_text(chunker.text, "own", chunker.max_tokens, chunker.overlap),
               !.buffers = run.buffers,
               !.seeds = run.seeds]
    /\ UNCHANGED <<env, workers, files, chunks_table, cursor, trace, before>>

Envs == {[tree |-> t, cfg |-> c] : t \in Trees, c \in Configs}

InitStores ==
    /\ files = [n \in AllIds |-> None]
    /\ chunks_table = [r \in RecordIds |-> <<>>]
    /\ cursor = ""

InitWorkers(n) ==
    /\ workers = [w \in 1..n |-> IdleWorker]
    /\ trace = [w \in 1..n |-> <<>>]
    /\ before = [w \in 1..n |-> [r \in RecordIds |-> <<>>]]

\* One worker instance serving one request after the other.
InitSystem ==
    /\ env \in Envs
    /\ InitStores
    /\ InitWorkers(1)
    /\ chunker = IdleChunker

\* chunk_text called on its own.
InitChunker ==
    /\ env = [tree |-> TreeEmpty, cfg |-> [manual_trigger_token |-> "", has_embeddings |-> FALSE]]
    /\ InitStores
    /\ InitWorkers(0)
    /\ chunker \in {[active |-> TRUE, text |-> t, max_tokens |-> m, overlap |-> o,
                     done |-> FALSE, out |-> <<>>, buffers |-> <<>>, seeds |-> <<>>] :
                       t \in TextInputs, m \in 0..MaxTokensBound, o \in 0..MaxOverlapBound}

Init == InitSystem \/ InitChunker

Next ==
    \/ WebhookArrives
    \/ ReindexArrives
    \/ BootstrapArrives
    \/ GetFile
    \/ ListChildren
    \/ Upsert
    \/ Export
    \/ Embed
    \/ DeleteChunks
    \/ InsertChunks
    \/ RecordToken
    \/ Respond
    \/ RunChunker

Spec == Init /\ [][Next]_vars



\* Two worker instances serving manual reindex requests for one document.
TreeLeaf ==
    [parent |-> [n \in {"d1"} |-> RootId],
     mime_type |-> [n \in {"d1"} |-> DOCUMENT],
     text |-> [n \in {"d1"} |-> <<"w", SP, "v">>]]

InitConcurrent ==
    /\ env \in {[tree |-> TreeLeaf, cfg |-> c] : c \in Configs}
    /\ InitStores
    /\ InitWorkers(2)
    /\ chunker = IdleChunker

NextConcurrent ==
    \/ ReindexArrives
    \/ GetFile
    \/ Upsert
    \/ Export
    \/ Embed
    \/ DeleteChunks
    \/ InsertChunks
    \/ Respond

SpecConcurrent == InitConcurrent /\ [][NextConcurrent]_vars

\* One worker instance serving bootstrap and manual reindex requests.  Every
\* step of a handler is one blocking call made with a timeout, so a handler
\* that can take its next step eventually takes it.
NextWalk ==
    \/ BootstrapArrives
    \/ ReindexArrives
    \/ GetFile
    \/ ListChildren
    \/ Upsert
    \/ Export
    \/ Embed
    \/ DeleteChunks
    \/ InsertChunks
    \/ Respond

SpecWalk ==
    /\ InitSystem
    /\ [][NextWalk]_vars
    /\ WF_vars(GetFile) /\ WF_vars(ListChildren) /\ WF_vars(Upsert)
    /\ WF_vars(Export) /\ WF_vars(Embed) /\ WF_vars(DeleteChunks)
    /\ WF_vars(InsertChunks)

-----------------------------------------------------------------------------
(***************************************************************************)
(* Properties.                                                             *)
(***************************************************************************)
Events(w, ops) == {i \in 1..Len(trace[w]) : trace[w][i].op \in ops}
EventsFor(w, ops, id) == {i \in Events(w, ops) : trace[w][i].id = id}
OkEventsFor(w, ops, id) == {i \in EventsFor(w, ops, id) : trace[w][i].ok}

\* The chunks a pass over node n assembles in memory before update_chunks.
AssembledChunks(n) ==
    LET plain == chunk_text(env.tree.text[n], RecordId(n), DefaultMaxTokens, DefaultOverlap)
    IN  IF env.cfg.has_embeddings
        THEN [j \in 1..Len(plain) |->
                [plain[j] EXCEPT !.embedding = EmbeddingOf(plain[j].content),
                                 !.tokens = UsageOf(plain[j].content)]]
        ELSE plain

\* The start of the content-processing pass an event belongs to.
PassStart(w, i) == SetMax({j \in Events(w, {"process"}) : j < i})

\* C1: content processing issues a delete or an insert for a record only
\* after the export and every embedding request of that pass succeeded; once
\* an export or embedding request of a pass has failed, no delete and no
\* insert follows for that record and the whole chunk table is what it was
\* when the pass began.
C1_NoWriteUnlessAssembled ==
    \A w \in DOMAIN workers :
        /\ \A i \in Events(w, {"export", "embed"}) :
              ~trace[w][i].ok =>
                  /\ \A j \in EventsFor(w, {"delete", "insert"}, trace[w][i].id) : j < i
                  /\ chunks_table = before[w]
        /\ \A i \in Events(w, {"delete", "insert"}) :
              LET n == trace[w][i].id
                  s == PassStart(w, i)
                  exports == {j \in OkEventsFor(w, {"export"}, n) : s < j /\ j < i}
                  embeds == {j \in OkEventsFor(w, {"embed"}, n) : s < j /\ j < i}
              IN  /\ Cardinality(exports) = 1
                  /\ env.cfg.has_embeddings =>
                        {trace[w][j].k : j \in embeds}
                            = {c.chunk_index : c \in {AssembledChunks(n)[x] :
                                                         x \in 1..Len(AssembledChunks(n))}}

\* C1 witness: the embedding request for the second chunk of a document
\* failed while a chunk set of that document was persisted.
C1_Witness ==
    \E w \in DOMAIN workers : \E i \in Events(w, {"embed"}) :
        /\ ~trace[w][i].ok
        /\ trace[w][i].k = 1
        /\ chunks_table[RecordId(trace[w][i].id)] # <<>>
        /\ workers[w].pc = "done"


Quiescent == \A w \in DOMAIN workers : workers[w].pc \in {"idle", "done"}

\* C2: once update_chunks has deleted a record's rows, a failed insert must
\* not leave the record without its old rows: after the failure the record
\* holds the complete old set (the new one was not written).
C2_ReplaceIsAtomic ==
    \A w \in DOMAIN workers : \A i \in Events(w, {"insert"}) :
        ~trace[w][i].ok =>
            chunks_table[RecordId(trace[w][i].id)] = before[w][RecordId(trace[w][i].id)]

\* Changes of a webhook body that carry a node id.
WithId(changes) == {j \in 1..Len(changes) : changes[j].fileId # "" \/ changes[j].id # ""}

\* C3: when a webhook delivery has been answered, every change of its batch
\* that carries a node id was handed to handle_change (whose first call is
\* get_file), whatever happened to the earlier changes.
C3_LaterChangesHandled ==
    \A w \in DOMAIN workers :
        (workers[w].pc = "done" /\ workers[w].kind = "webhook") =>
            Cardinality(Events(w, {"get_file"}))
                = Cardinality(WithId(workers[w].request.changes))

Indices(rows) == {rows[j].chunk_index : j \in 1..Len(rows)}

\* C4: when two passes over one document have both run to the end without
\* error, the record holds the output of exactly one pass: no chunk index
\* twice, and as many rows as one pass writes.
C4_NoInterleavedReplace ==
    (/\ Quiescent
     /\ \A w \in DOMAIN workers :
           workers[w].pc = "done" /\ workers[w].status = "ok"
               /\ Events(w, {"insert"}) # {})
        => \A w \in DOMAIN workers : \A i \in Events(w, {"insert"}) :
              LET n == trace[w][i].id
              IN  /\ Cardinality(Indices(chunks_table[RecordId(n)]))
                        = Len(chunks_table[RecordId(n)])
                  /\ chunks_table[RecordId(n)] = AssembledChunks(n)

RECURSIVE AncestorsOf(_, _)
AncestorsOf(tree, n) ==
    IF n \notin NodesOf(tree) THEN {}
    ELSE {tree.parent[n]} \cup AncestorsOf(tree, tree.parent[n])

DescendantsOf(tree, s) == {n \in NodesOf(tree) : s \in AncestorsOf(tree, n)}
IsFolder(tree, n) == n = RootId \/ (n \in NodesOf(tree) /\ tree.mime_type[n] = FOLDER)

\* The folder a bootstrap or manual reindex request walks from.
WalkStart(st) == IF st.kind = "bootstrap" THEN RootId ELSE st.request.drive_id

\* C5: a walk that ran to the end has upserted every node below its start
\* folder exactly once (F + L upserts for the F folders and L leaves found
\* there) and has invoked content processing exactly once per leaf and never
\* for a folder, whatever the listing order; no walk upserts a node twice;
\* the example tree gives 3 upserts and 2 content-processing calls.
C5_OneUpsertPerNode ==
    \A w \in DOMAIN workers :
        LET st == workers[w]
            below == DescendantsOf(env.tree, WalkStart(st))
        IN  (st.kind \in {"bootstrap", "reindex"} /\ IsFolder(env.tree, WalkStart(st))) =>
              /\ \A n \in AllIds :
                    /\ Cardinality(EventsFor(w, {"upsert"}, n)) <= 1
                    /\ Cardinality(EventsFor(w, {"process"}, n))
                          <= (IF IsFolder(env.tree, n) THEN 0 ELSE 1)
              /\ (st.pc = "done" /\ st.status = "ok") =>
                    /\ \A n \in below :
                          /\ Cardinality(OkEventsFor(w, {"upsert"}, n)) = 1
                          /\ Cardinality(EventsFor(w, {"process"}, n))
                                = (IF IsFolder(env.tree, n) THEN 0 ELSE 1)
                    /\ Cardinality(Events(w, {"upsert"})) = Cardinality(below)
                    /\ Cardinality(Events(w, {"process"}))
                          = Cardinality({n \in below : ~IsFolder(env.tree, n)})
                    /\ (env.tree = TreeExample /\ st.kind = "bootstrap") =>
                          /\ Cardinality(Events(w, {"upsert"})) = 3
                          /\ Cardinality(Events(w, {"process"})) = 2

\* C5 witness: a bootstrap walk of the example tree has run to the end.
C5_Witness ==
    \E w \in DOMAIN workers :
        /\ env.tree = TreeExample
        /\ workers[w].kind = "bootstrap"
        /\ workers[w].pc = "done" /\ workers[w].status = "ok"
        /\ Cardinality(Events(w, {"upsert"})) = 3

\* The ids from the configured root down to node n.
RECURSIVE ChainTo(_, _)
ChainTo(tree, n) ==
    IF n \notin NodesOf(tree) THEN <<n>> ELSE Append(ChainTo(tree, tree.parent[n]), n)

\* C6: the path stored for a node is the path stored for its parent extended
\* by the node's id (the root's path being the root id alone), and it is the
\* same however the node was reached: always the ids from the root to it.
C6_PathExtendsParentPath ==
    \A n \in NodesOf(env.tree) :
        LET par == env.tree.parent[n]
        IN  files[n] # None =>
              /\ files[n] = _derive_path(ChainTo(env.tree, n))
              /\ (Quiescent /\ (par = RootId \/ files[par] # None)) =>
                    files[n] = (IF par = RootId THEN <<RootId>> ELSE files[par])
                                   \o <<".", n>>

\* C7: a manual reindex of a node the provider does not (or no longer) hold
\* ends normally, having made no call but the lookup itself.
C7_MissingNodeIsNoOp ==
    \A w \in DOMAIN workers :
        LET st == workers[w]
        IN  (/\ st.pc = "done" /\ st.kind = "reindex"
             /\ st.status # "unauthorized"
             /\ ~Exists(env.tree, st.request.drive_id))
                => /\ st.status = "ok"
                   /\ Events(w, {"list_children", "upsert", "process", "export", "embed",
                                 "delete", "insert", "record_token"}) = {}

\* C8: with a trigger secret configured, a request whose Authorization
\* header is not "Bearer <secret>" makes no external call at all, on each of
\* the three endpoints; with no secret configured no request is answered as
\* unauthorized.
C8_RejectedBeforeAnyWork ==
    \A w \in DOMAIN workers :
        LET st == workers[w]
            secret == env.cfg.manual_trigger_token
        IN  /\ (st.kind # "idle" /\ secret # ""
                  /\ st.request.authorization # <<"Bearer ", secret>>)
                  => trace[w] = <<>>
            /\ secret = "" => st.status # "unauthorized"

InOrder(rows) == \A j \in 1..Len(rows) : rows[j].chunk_index = j - 1

\* C9: chunk_text numbers its chunks 0, 1, ..., N-1 in output order, and in
\* every state of a worker serving one request after the other the rows
\* stored for a record carry the indices 0..N-1, each once, in order.
C9_IndicesContiguous ==
    /\ chunker.done => InOrder(chunker.out)
    /\ \A w \in DOMAIN workers : InOrder(workers[w].chunks)
    /\ \A r \in RecordIds :
          /\ InOrder(chunks_table[r])
          /\ Cardinality(Indices(chunks_table[r])) = Len(chunks_table[r])

\* C9 witness: a record holds two rows after a reconciliation failed in its
\* insert.
C9_Witness ==
    /\ \E r \in RecordIds : Len(chunks_table[r]) >= 2
    /\ \E w \in DOMAIN workers :
          workers[w].pc = "done" /\ workers[w].failed_at = "insert"

\* Whether chunks k, k+1, ... are joins of runs of paragraphs P[lo..hi] that
\* start no earlier than the run before (prevLo), leave no gap after it
\* (lo <= prevHi + 1), end later than it (hi > prevHi) and end at the last
\* paragraph.
RECURSIVE RunsCover(_, _, _, _, _)
RunsCover(chunks, k, P, prevLo, prevHi) ==
    IF k > Len(chunks) THEN prevHi = Len(P)
    ELSE \E lo \in prevLo..(prevHi + 1) : \E hi \in (prevHi + 1)..Len(P) :
            /\ lo <= hi
            /\ chunks[k].content = join_paragraphs(SubSeq(P, lo, hi))
            /\ RunsCover(chunks, k + 1, P, lo, hi)

\* C10: each chunk chunk_text returns is the blank-line join of a run of
\* consecutive input paragraphs; the runs advance through the input; the
\* first starts at the first paragraph, the last ends at the last; and each
\* run begins inside or right after the run before, so that dropping the
\* repeated leading paragraphs and concatenating gives the paragraph sequence.
C10_ChunksCoverParagraphs ==
    chunker.done =>
        RunsCover(chunker.out, 1, _split_paragraphs(chunker.text), 1, 0)

\* C10 witness: a call with overlap returned three chunks or more, one of
\* them repeating a paragraph of the chunk before.
C10_Witness ==
    /\ chunker.done
    /\ chunker.overlap > 0
    /\ Len(chunker.out) >= 3
    /\ Len(_split_paragraphs(chunker.text)) < SumTo([j \in 1..Len(chunker.out) |->
              Len(_split_paragraphs(chunker.out[j].content))], Len(chunker.out))

-----------------------------------------------------------------------------
(***************************************************************************)
(* The chunker's output against its input paragraphs.                      *)
(***************************************************************************)
InputParagraphs == _split_paragraphs(chunker.text)

\* The paragraphs of the k-th returned chunk, read back from its content.
ChunkParagraphs(k) == _split_paragraphs(chunker.out[k].content)

RECURSIVE Concat(_)
Concat(ss) == IF ss = <<>> THEN <<>> ELSE Head(ss) \o Concat(Tail(ss))

\* The input positions the k-th chunk spans: it ends where the paragraphs
\* appended so far end and reaches back over its whole buffer.
RunHi(k) == SumTo([j \in 1..k |-> Len(chunker.buffers[j]) - chunker.seeds[j]], k)
RunLo(k) == RunHi(k) - Len(chunker.buffers[k]) + 1
ChunksHolding(i) == {k \in 1..Len(chunker.out) : RunLo(k) <= i /\ i <= RunHi(k)}

WordTotal(ps) == SumTo([j \in 1..Len(ps) |-> word_count(ps[j])], Len(ps))

\* C11: with overlap = 0 the chunks partition the paragraph sequence: the
\* spans of two chunks never meet, every input paragraph occurrence lies in
\* exactly one chunk, and the chunks' paragraphs read one after the other
\* are the input paragraphs.
C11_DisjointWithoutOverlap ==
    (chunker.done /\ chunker.overlap = 0) =>
        /\ \A j, k \in 1..Len(chunker.out) : j < k => RunHi(j) < RunLo(k)
        /\ \A i \in 1..Len(InputParagraphs) : Cardinality(ChunksHolding(i)) = 1
        /\ \A k \in 1..Len(chunker.out) :
              ChunkParagraphs(k) = SubSeq(InputParagraphs, RunLo(k), RunHi(k))
        /\ Concat([k \in 1..Len(chunker.out) |-> ChunkParagraphs(k)]) = InputParagraphs

\* C11 witness: a call with overlap = 0 returned several chunks, one of them
\* holding two paragraphs or more.
C11_Witness ==
    /\ chunker.done /\ chunker.overlap = 0
    /\ Len(chunker.out) >= 2
    /\ \E k \in 1..Len(chunker.out) : Len(ChunkParagraphs(k)) >= 2

\* Input positions of the paragraphs whose own word count exceeds max_tokens.
Oversized == {i \in 1..Len(InputParagraphs) :
                 word_count(InputParagraphs[i]) > chunker.max_tokens}

\* The chunks position i was appended to (not carried into as overlap).
ChunksAppending(i) == {k \in ChunksHolding(i) : i >= RunLo(k) + chunker.seeds[k]}

\* C12 as claimed: a paragraph whose own word count exceeds max_tokens is
\* held whole by exactly one returned chunk, for every overlap setting.
C12_OversizedInExactlyOneChunk ==
    chunker.done =>
        \A i \in Oversized :
            /\ Cardinality(ChunksHolding(i)) = 1
            /\ \A k \in ChunksHolding(i) :
                  ChunkParagraphs(k) = SubSeq(InputParagraphs, RunLo(k), RunHi(k))

\* C12 amended: a paragraph whose own word count exceeds max_tokens is never
\* split: it is appended to exactly one chunk, every chunk that holds it
\* holds it whole, and with overlap = 0 exactly one chunk holds it (with
\* overlap > 0 the following chunks may repeat it as carried-over overlap).
C12_OversizedNeverSplit ==
    chunker.done =>
        \A i \in Oversized :
            /\ Cardinality(ChunksAppending(i)) = 1
            /\ \A k \in ChunksHolding(i) :
                  /\ ChunkParagraphs(k) = SubSeq(InputParagraphs, RunLo(k), RunHi(k))
                  /\ ChunkParagraphs(k)[i - RunLo(k) + 1] = InputParagraphs[i]
            /\ chunker.overlap = 0 => Cardinality(ChunksHolding(i)) = 1

\* C12 witness: a call with overlap on three paragraphs or more returned an
\* oversized paragraph in two chunks or more.
C12_Witness ==
    /\ chunker.done
    /\ chunker.overlap > 0
    /\ Len(InputParagraphs) >= 3
    /\ \E i \in Oversized : Cardinality(ChunksHolding(i)) >= 2

\* C13 as claimed: every returned chunk's token count is the word total of
\* its paragraphs and is at most max_tokens, unless the chunk is a single
\* paragraph that alone exceeds max_tokens.
C13_TokenBounded ==
    chunker.done =>
        \A k \in 1..Len(chunker.out) :
            /\ chunker.out[k].tokens = WordTotal(ChunkParagraphs(k))
            /\ \/ chunker.out[k].tokens <= chunker.max_tokens
               \/ /\ Len(ChunkParagraphs(k)) = 1
                  /\ word_count(ChunkParagraphs(k)[1]) > chunker.max_tokens

\* C13 amended: every returned chunk's token count is the word total of its
\* paragraphs and is at most max_tokens, unless the chunk holds a single
\* paragraph beyond the overlap carried over from the chunk before; with
\* overlap = 0 that is a chunk of one paragraph which alone exceeds
\* max_tokens.
C13_TokenBoundedBeyondOverlap ==
    chunker.done =>
        \A k \in 1..Len(chunker.out) :
            /\ chunker.out[k].tokens = WordTotal(ChunkParagraphs(k))
            /\ \/ chunker.out[k].tokens <= chunker.max_tokens
               \/ /\ Len(ChunkParagraphs(k)) - chunker.seeds[k] = 1
                  /\ chunker.overlap = 0 =>
                        /\ Len(ChunkParagraphs(k)) = 1
                        /\ word_count(ChunkParagraphs(k)[1]) > chunker.max_tokens

\* C13 witness: a chunk of carried-over overlap plus one paragraph is over
\* the limit although none of its paragraphs is.
C13_Witness ==
    /\ chunker.done
    /\ \E k \in 1..Len(chunker.out) :
          /\ chunker.out[k].tokens > chunker.max_tokens
          /\ chunker.seeds[k] >= 1
          /\ \A j \in 1..Len(ChunkParagraphs(k)) :
                word_count(ChunkParagraphs(k)[j]) <= chunker.max_tokens

\* The last m paragraphs of ps.
LastOf(ps, m) == SubSeq(ps, Len(ps) - m + 1, Len(ps))

\* The shortest suffix of ps whose word total is at least overlap, or all of
\* ps when its total is smaller.
ShortestSuffix(ps, overlap) ==
    IF WordTotal(ps) < overlap THEN ps
    ELSE LastOf(ps, SetMin({m \in 1..Len(ps) : WordTotal(LastOf(ps, m)) >= overlap}))

\* C18: with overlap > 0 every chunk after the first begins with the
\* shortest suffix of the chunk before whose word total is at least overlap
\* (that whole chunk when its total is smaller), in the original order and
\* with whole paragraphs, followed at once by the next input paragraph; and
\* its token count is the suffix's word total plus the words appended.
C18_SeedIsShortestSuffix ==
    (chunker.done /\ chunker.overlap > 0) =>
        \A k \in 2..Len(chunker.out) :
            LET prev == ChunkParagraphs(k - 1)
                cur == ChunkParagraphs(k)
                seed == ShortestSuffix(prev, chunker.overlap)
            IN  /\ chunker.seeds[k] = Len(seed)
                /\ Len(cur) > Len(seed)
                /\ SubSeq(cur, 1, Len(seed)) = seed
                /\ seed = SubSeq(InputParagraphs, RunLo(k), RunHi(k - 1))
                /\ cur[Len(seed) + 1] = InputParagraphs[RunHi(k - 1) + 1]
                /\ chunker.out[k].tokens
                      = WordTotal(seed) + WordTotal(SubSeq(cur, Len(seed) + 1, Len(cur)))

\* C18 witness: a chunk starts with two paragraphs carried over from a
\* longer chunk before it.
C18_Witness ==
    /\ chunker.done /\ chunker.overlap > 0
    /\ \E k \in 2..Len(chunker.out) :
          /\ chunker.seeds[k] >= 2
          /\ chunker.seeds[k] < Len(ChunkParagraphs(k - 1))

\* The lines of a text: the pieces between its line breaks.
RECURSIVE LinesOf(_)
LinesOf(t) ==
    LET breaks == {j \in 1..Len(t) : t[j] = NL}
    IN  IF breaks = {} THEN <<t>>
        ELSE <<SubSeq(t, 1, SetMin(breaks) - 1)>>
                 \o LinesOf(SubSeq(t, SetMin(breaks) + 1, Len(t)))

IsBlankLine(line) == \A j \in 1..Len(line) : line[j] \in Whitespace

\* Maximal runs of non-blank lines, each run put together again with its
\* line breaks; cur is the run being collected.
RECURSIVE RunsOfLines(_, _)
RunsOfLines(lines, cur) ==
    LET flushed == IF cur = <<>> THEN <<>> ELSE <<cur>>
    IN  IF lines = <<>> THEN flushed
        ELSE IF IsBlankLine(Head(lines)) THEN flushed \o RunsOfLines(Tail(lines), <<>>)
        ELSE RunsOfLines(Tail(lines),
                         IF cur = <<>> THEN Head(lines) ELSE cur \o <<NL>> \o Head(lines))

\* Paragraphs as the text's maximal runs of non-blank lines, trimmed.
BlankLineParagraphs(t) ==
    LET runs == RunsOfLines(LinesOf(t), <<>>)
    IN  SelectNonEmpty([j \in 1..Len(runs) |-> str_strip(runs[j])])

\* C17: the paragraphs chunk_text works on are the maximal runs of non-blank
\* lines of its input, trimmed, a line being blank when it is empty or holds
\* only whitespace; every returned chunk is made of such paragraphs; and an
\* input without a non-blank line gives no chunk.
C17_SplitsAtBlankLines ==
    chunker.done =>
        /\ InputParagraphs = BlankLineParagraphs(chunker.text)
        /\ \A k \in 1..Len(chunker.out) :
              \A j \in 1..Len(chunker.buffers[k]) :
                  \E i \in 1..Len(BlankLineParagraphs(chunker.text)) :
                      chunker.buffers[k][j] = BlankLineParagraphs(chunker.text)[i]
        /\ BlankLineParagraphs(chunker.text) = <<>> => chunker.out = <<>>

-----------------------------------------------------------------------------
Unsupported(n) == n \in NodesOf(env.tree) /\ env.tree.mime_type[n] \notin DOMAIN SUPPORTED_EXPORTS

\* C15: content processing of a leaf whose content-type is not exportable
\* follows one metadata upsert of that leaf and makes no call at all: no
\* export, embedding, delete or insert is issued for the leaf, the chunk
\* table is what it was before the upsert, and the request does not fail
\* there.
C15_UnsupportedLeafSkipped ==
    \A w \in DOMAIN workers : \A i \in Events(w, {"process"}) :
        LET n == trace[w][i].id
        IN  (Unsupported(n) /\ env.tree.mime_type[n] # FOLDER) =>
              /\ i > 1 /\ trace[w][i - 1] = Event("upsert", n, trace[w][i - 1].path, 0, TRUE)
              /\ Cardinality(EventsFor(w, {"upsert"}, n))
                    = Cardinality(EventsFor(w, {"process"}, n))
              /\ EventsFor(w, {"export", "embed", "delete", "insert"}, n) = {}
              /\ chunks_table[RecordId(n)] = before[w][RecordId(n)]
              /\ i = Len(trace[w]) =>
                    /\ chunks_table = before[w]
                    /\ workers[w].status # "error"

\* C15 witness: a walk that had stored a document's chunks went on to an
\* image/png leaf and ended normally.
C15_Witness ==
    \E w \in DOMAIN workers :
        /\ workers[w].pc = "done" /\ workers[w].status = "ok"
        /\ Len(trace[w]) > 0
        /\ trace[w][Len(trace[w])].op = "process"
        /\ env.tree.mime_type[trace[w][Len(trace[w])].id] = PNG
        /\ \E r \in RecordIds : chunks_table[r] # <<>>
        /\ Cardinality(EventsFor(w, {"upsert"}, trace[w][Len(trace[w])].id)) = 1

\* The embedding requests of the pass event i belongs to that precede i.
EarlierEmbeds(w, i) ==
    {j \in Events(w, {"embed"}) : j < i /\ PassStart(w, j) = PassStart(w, i)}

\* The chunk chunk_text returned, as embed_chunks leaves it once the
\* provider answered for it.
Annotated(c) == [c EXCEPT !.embedding = EmbeddingOf(c.content),
                          !.tokens = UsageOf(c.content)]

\* C16: with the provider configured the embedding requests of a pass go out
\* one per chunk in ascending index order, none follows a failed one (the
\* request fails there), each answer is stored on the chunk whose text was
\* sent, and when embed_chunks has returned every chunk carries its vector
\* and token figure; without the credential no request is issued and the
\* chunks are what chunk_text returned.
C16_EmbedsInOrder ==
    \A w \in DOMAIN workers :
        LET st == workers[w]
            plain == chunk_text(env.tree.text[st.file.id], st.file_id,
                                DefaultMaxTokens, DefaultOverlap)
        IN  /\ \A i \in Events(w, {"embed"}) :
                  /\ env.cfg.has_embeddings
                  /\ trace[w][i].k = Cardinality(EarlierEmbeds(w, i))
                  /\ \A j \in EarlierEmbeds(w, i) : trace[w][j].ok
                  /\ ~trace[w][i].ok =>
                        /\ i = Len(trace[w])
                        /\ st.pc = "done" /\ st.status = "error"
            /\ st.pc = "embed" =>
                  /\ Len(st.chunks) = Len(plain)
                  /\ \A j \in 1..Len(plain) :
                        st.chunks[j] = IF j < st.ei THEN Annotated(plain[j]) ELSE plain[j]
            /\ st.pc \in {"delete", "insert"} =>
                  /\ Len(st.chunks) = Len(plain)
                  /\ \A j \in 1..Len(plain) :
                        st.chunks[j] = IF env.cfg.has_embeddings THEN Annotated(plain[j])
                                       ELSE plain[j]
                  /\ Cardinality({j \in Events(w, {"embed"}) :
                                     j > SetMax(Events(w, {"process"}))})
                        = (IF env.cfg.has_embeddings THEN Len(plain) ELSE 0)

\* C16 witness: embed_chunks has returned two chunks after two answered
\* requests.
C16_Witness ==
    \E w \in DOMAIN workers :
        /\ workers[w].pc = "delete"
        /\ env.cfg.has_embeddings
        /\ Len(workers[w].chunks) = 2
        /\ workers[w].chunks[2].embedding = EmbeddingOf(workers[w].chunks[2].content)
        /\ workers[w].chunks[1].content # workers[w].chunks[2].content

\* C14: a request that ran to the end without error leaves every record it
\* processed with exactly the chunks the provider's text and the embedding
\* answers determine, whatever the record held before, and every other
\* record as it was; so a second reconciliation of the same unchanged nodes
\* ends with the chunk sets of the first, and a delivery that reconciles one
\* node twice in a row leaves the whole chunk table after the second pass
\* equal to the table after the first.
C14_SecondRunSameChunks ==
    \A w \in DOMAIN workers :
        (workers[w].pc = "done" /\ workers[w].status = "ok") =>
            /\ \A n \in AllIds :
                  chunks_table[RecordId(n)] =
                      IF OkEventsFor(w, {"delete"}, n) # {} THEN AssembledChunks(n)
                      ELSE before[w][RecordId(n)]
            /\ \A n \in AllIds :
                  Cardinality(OkEventsFor(w, {"delete"}, n)) >= 2 =>
                      chunks_table = before[w]

\* C14 witness: one delivery reconciled a two-chunk document twice and both
\* passes stored the same two rows.
C14_Witness ==
    \E w \in DOMAIN workers : \E n \in NodesOf(env.tree) :
        /\ workers[w].pc = "done" /\ workers[w].status = "ok"
        /\ Cardinality(OkEventsFor(w, {"insert"}, n)) = 2
        /\ Len(chunks_table[RecordId(n)]) = 2
        /\ before[w][RecordId(n)] = chunks_table[RecordId(n)]

\* C20: record_drive_page_token is called only by a webhook delivery that
\* carries a token, as its last call, after every change of the batch that
\* names a node was handed to handle_change and every call made for them
\* succeeded; a delivery in which a call failed while handling a change never
\* calls it.
C20_CursorAfterWholeBatch ==
    \A w \in DOMAIN workers :
        LET st == workers[w]
            tokens == Events(w, {"record_token"})
        IN  /\ \A i \in tokens :
                  /\ st.kind = "webhook" /\ st.request.page_token # ""
                  /\ i = Len(trace[w])
                  /\ \A j \in 1..(i - 1) : trace[w][j].ok
                  /\ Cardinality({j \in Events(w, {"get_file"}) : j < i})
                        = Cardinality(WithId(st.request.changes))
                  /\ Len(st.processed) = Cardinality(WithId(st.request.changes))
            /\ (\E j \in 1..Len(trace[w]) :
                    ~trace[w][j].ok /\ trace[w][j].op # "record_token") => tokens = {}
            /\ Cardinality(tokens) <= 1

\* C20 witness: a delivery of two changes, both handled, stored its token.
C20_Witness ==
    \E w \in DOMAIN workers :
        /\ workers[w].pc = "done" /\ workers[w].status = "ok"
        /\ Cardinality(WithId(workers[w].request.changes)) = 2
        /\ Events(w, {"insert"}) # {}
        /\ Events(w, {"record_token"}) # {}
        /\ cursor = workers[w].request.page_token

-----------------------------------------------------------------------------
\* The node itself and everything below it.
SubtreeOf(tree, n) == {n} \cup DescendantsOf(tree, n)

ContentOps == {"process", "export", "embed", "delete", "insert"}

\* The walk's order as the calls of a bootstrap or manual reindex request
\* show it.
WalkIsPreOrder(w) ==
    LET st == workers[w]
        tree == env.tree
        ups == Events(w, {"upsert"})
    IN  st.kind \in {"bootstrap", "reindex"} =>
          /\ \A i \in ups :
                LET n == trace[w][i].id
                IN  \* the node's upsert precedes its own content processing, the
                    \* listing of its children and every call for a descendant
                    /\ \A j \in 1..Len(trace[w]) :
                          (j # i /\ trace[w][j].op # "get_file"
                               /\ trace[w][j].id \in SubtreeOf(tree, n)) => j > i
                    \* its parent was listed before, with all its children
                    /\ \/ st.kind = "reindex" /\ ~IsFolder(tree, WalkStart(st))
                       \/ \E l \in OkEventsFor(w, {"list_children"}, tree.parent[n]) :
                             /\ l < i
                             /\ trace[w][l].k = Cardinality(ChildrenOf(tree, tree.parent[n]))
          /\ \A i, j \in ups :
                LET a == trace[w][i].id
                    b == trace[w][j].id
                IN  (i < j /\ trace[w][i].ok /\ b \notin SubtreeOf(tree, a)) =>
                      \* the whole subtree of a was finished before b was upserted
                      /\ \A m \in SubtreeOf(tree, a) :
                            /\ \E u \in OkEventsFor(w, {"upsert"}, m) : u < j
                            /\ IsFolder(tree, m) =>
                                  \E l \in OkEventsFor(w, {"list_children"}, m) : l < j
                            /\ ~IsFolder(tree, m) =>
                                  \E c \in EventsFor(w, {"process"}, m) : c < j
                      /\ \A e \in 1..Len(trace[w]) :
                            (trace[w][e].id \in SubtreeOf(tree, a)
                                /\ trace[w][e].op \in ContentOps \cup {"upsert", "list_children"})
                                => e < j
          /\ (st.pc = "done" /\ st.status = "ok" /\ IsFolder(tree, WalkStart(st))) =>
                \* the walk returned: every folder below the start was listed and
                \* every child listed was upserted and, if a leaf, processed
                \A m \in DescendantsOf(tree, WalkStart(st)) :
                    /\ OkEventsFor(w, {"upsert"}, m) # {}
                    /\ IsFolder(tree, m) => OkEventsFor(w, {"list_children"}, m) # {}
                    /\ ~IsFolder(tree, m) => EventsFor(w, {"process"}, m) # {}

\* C19: in every bootstrap or manual reindex request the walk is depth-first
\* and pre-order (a node is upserted before its own content processing and
\* before any call for a descendant; a child's whole subtree is finished
\* before the next sibling is upserted; a walk that returned has handled
\* every listed child and its subtree), and every request that has started
\* comes to its end.
C19_PreOrderAndTerminates ==
    /\ [](WalkIsPreOrder(1))
    /\ (workers[1].pc \notin {"idle", "done"}) ~> (workers[1].pc = "done")

\* C19 witness: a walk three folders deep has returned after its last leaf.
C19_Witness ==
    /\ env.tree = TreeDeep
    /\ workers[1].kind = "bootstrap"
    /\ workers[1].pc = "done" /\ workers[1].status = "ok"
    /\ OkEventsFor(1, {"upsert"}, "d2") # {}
    /\ OkEventsFor(1, {"upsert"}, "p") # {}

-----------------------------------------------------------------------------
\* The node ids a request names: the configured root for a bootstrap, the
\* path parameter of a manual reindex, the ids of a webhook's changes.
StartsOf(st) ==
    CASE st.kind = "bootstrap" -> {RootId}
      [] st.kind = "reindex" -> {st.request.drive_id}
      [] OTHER -> {IF st.request.changes[j].fileId # "" THEN st.request.changes[j].fileId
                   ELSE st.request.changes[j].id : j \in WithId(st.request.changes)}

\* C21: no request upserts a folder it starts its walk from: every upsert of
\* a walk is for a node that an earlier successful listing of its parent, in
\* the same request, returned as a child, so a folder's record is written
\* only by a walk that started at one of its ancestors and the configured
\* root is never written; and a request for leaves lists no children and
\* upserts nothing but those leaves.
C21_StartFolderNeverUpserted ==
    /\ files[RootId] = None
    /\ \A w \in DOMAIN workers :
          LET st == workers[w]
              folders == {s \in StartsOf(st) : IsFolder(env.tree, s)}
              leaves == {s \in StartsOf(st) : Exists(env.tree, s) /\ ~IsFolder(env.tree, s)}
          IN  st.kind # "idle" =>
                /\ \A s \in folders : EventsFor(w, {"upsert"}, s) = {}
                /\ \A i \in Events(w, {"upsert"}) :
                      LET n == trace[w][i].id
                      IN  \/ n \in leaves
                          \/ /\ \E s \in folders : s \in AncestorsOf(env.tree, n)
                             /\ \E l \in OkEventsFor(w, {"list_children"}, env.tree.parent[n]) :
                                   l < i
                /\ \A i \in Events(w, {"upsert"}) :
                      IsFolder(env.tree, trace[w][i].id) =>
                          \E s \in folders : s \in AncestorsOf(env.tree, trace[w][i].id)
                /\ folders = {} =>
                      /\ Events(w, {"list_children"}) = {}
                      /\ \A i \in Events(w, {"upsert"}) : trace[w][i].id \in leaves

\* C21 witness: a change of folder f was handled to the end: the folder
\* below it and the leaves were upserted, f itself has no record.
C21_Witness ==
    \E w \in DOMAIN workers :
        /\ env.tree = TreeDeep
        /\ workers[w].kind = "reindex" /\ workers[w].request.drive_id = "f"
        /\ workers[w].pc = "done" /\ workers[w].status = "ok"
        /\ files["g"] # None /\ files["d2"] # None /\ files["p"] # None
        /\ files["f"] = None

=============================================================================
